---------------------------- MODULE Spec2Model ----------------------------
(***************************************************************************)
(* A model of the synapse-processing core of pynn_spinnaker:               *)
(*                                                                         *)
(*   - Common::SpikeInputBufferBase, the spike input queue                 *)
(*     (src/spinnaker/pine_nut/common/spike_input_buffer.h), both as a     *)
(*     sequence of whole calls (Spec, SpecS5) and as a producer and a      *)
(*     consumer interleaved statement by statement (SpecSPSC);             *)
(*   - SynapseTypes::STDP::ProcessRow / AddPostSynapticSpike, the plastic  *)
(*     row kernel (.../synapse_types/stdp.h) (SpecSTDP);                   *)
(*   - ConnectionBuilder::MatrixGenerator::Static::Generate, the on-chip   *)
(*     matrix generator (src/unnamed/part_000) (SpecGen, SpecCodec);       *)
(*   - c_main, ReadSDRAMData and TimerTick of the Poisson spike source     *)
(*     (spike_input_buffer.h:84-230) (SpecPoisson).                        *)
(*                                                                         *)
(* Unsigned 32-bit values that can wrap (tick - delay) are held as their   *)
(* two's-complement bit pattern read as a signed integer: the unsigned     *)
(* value v >= 2^31 is held as v - 2^32, and ULt / ULe are the unsigned     *)
(* orders on that representation.                                          *)
(***************************************************************************)
EXTENDS Integers, Sequences, FiniteSets, TLC

VARIABLES
  \* ---- Common::SpikeInputBufferBase (spike_input_buffer.h:75-80)
  m_Buffer,         \* uint32_t m_Buffer[Size]
  m_Input,          \* unsigned int m_Input
  m_Output,         \* unsigned int m_Output
  m_NumOverflows,   \* unsigned int m_NumOverflows
  m_NumUnderflows,  \* unsigned int m_NumUnderflows
  \* ---- the callers of the queue, as seen from outside
  e,                \* the caller's variable GetNextSpike writes through *e
  pushed,           \* keys of the AddSpike calls that returned true, in order
  popped,           \* values handed back by the GetNextSpike calls that returned true
  addFalse,         \* number of AddSpike calls that returned false
  getFalse,         \* number of GetNextSpike calls that returned false
  nAdd,             \* number of AddSpike calls made
  nGet,             \* number of GetNextSpike calls made
  \* ---- producer (packet interrupt) and consumer (main loop) positions
  pcP,              \* line of AddSpike the producer is at ("idle" between calls)
  keyP,             \* the producer's argument key
  pcC,              \* line of GetNextSpike the consumer is at
  pending,          \* slots holding an accepted key that has not been read back yet
  \* ---- SynapseTypes::STDP and the row it is given (stdp.h)
  tick,               \* the current simulation tick
  dmaBuffer,          \* words 0 .. 4 + PreTraceWords of the row: N, delay extension
                      \* (offset, locator), last update tick, last pre tick, pre-trace
  plasticWords,       \* the row's plastic words, as GetPlasticWords views them
  controlWords,       \* the row's control words, as GetControlWords views them
  m_PostEventHistory, \* PostEventHistory m_PostEventHistory[512]
  calls,              \* what the ProcessRow that has just returned called, in call order
                      \* (after AddPostSynapticSpike: its argument neuronID)
  lastOp,             \* the method of STDP that has just returned, else "none"
  lastFlush,          \* the flush argument of the ProcessRow that has just returned
  applied,            \* the <<synapse, event time>> pairs ProcessRow has passed to
                      \* ApplyPostSpike so far (followed in SpecTile only)
  lastWindowEnd,      \* windowEndTick of each synapse in the last ProcessRow of the
                      \* row (<<>> before the first)
  \* ---- ConnectionBuilder::MatrixGenerator::Static::Generate (part_000)
  m_NumRows,          \* m_NumRows
  maxRowSynapses,     \* the argument maxRowSynapses
  matrix,             \* the memory matrixAddress points into, by word offset
  matrixAddress,      \* the output pointer, as a word offset from the matrix start
  genRow,             \* the loop variable i: rows generated so far
  rowStarts,          \* the offset each row's first header word was written at
  rowInputs,          \* what the connector and the generators returned for each row
  \* ---- the Poisson spike source executable (spike_input_buffer.h:84-230)
  g_SimulationTicks,  \* g_Config.GetSimulationTicks()
  failAt,             \* the step of ReadSDRAMData that fails on this core (0: none)
  bootCalls,          \* what c_main has called, in call order
  mainPc,             \* "boot" before c_main, "returned", "running", "exited"
  timerTick,          \* the tick the timer delivered last (ticks start at 1)
  updates,            \* the g_PoissonSource.Update calls: <<tick, sources that spiked>>
  transfers,          \* number of g_SpikeRecording.TransferBuffer calls
  exitCodes,          \* the arguments of the spin1_exit calls
  \* ---- TimerTick statement by statement (spike_input_buffer.h:165-204)
  emitPc,             \* "idle" outside the callback, "send" at spin1_send_mc_packet,
                      \* "delay" in spin1_delay_us, "transfer" before TransferBuffer
  requested,          \* the neurons Update asks emitSpikeLambda to emit this tick
  toSend,             \* the neurons of this tick still to emit, the head in flight
  packets,            \* the keys of the packets sent this tick, in send order
  retried             \* a send of this tick has failed

qvars == <<m_Buffer, m_Input, m_Output, m_NumOverflows, m_NumUnderflows>>
cvars == <<e, pushed, popped, addFalse, getFalse, nAdd, nGet>>
pvars == <<pcP, keyP, pcC, pending>>

svars == <<tick, dmaBuffer, plasticWords, controlWords, m_PostEventHistory, calls,
           lastOp, lastFlush, applied, lastWindowEnd>>

gvars == <<m_NumRows, maxRowSynapses, matrix, matrixAddress, genRow, rowStarts,
           rowInputs>>

evars == <<emitPc, requested, toSend, packets, retried>>

tvars == <<g_SimulationTicks, failAt, bootCalls, mainPc, timerTick, updates,
           transfers, exitCodes, evars>>

vars == <<qvars, cvars, pvars, svars, gvars, tvars>>

-----------------------------------------------------------------------------
(* Bounds of the model *)

\* log2 of the template parameter Size of the modelled buffer
SizeBits == 2

\* number of queue calls (AddSpike + GetNextSpike) in one behaviour
MaxCalls == 8

\* number of distinct spike keys the producer offers
NumKeys == 2

-----------------------------------------------------------------------------
(* Common::SpikeInputBufferBase *)

\* template<unsigned int Size>: a power of two
Size == 2 ^ SizeBits

Slots == 0 .. (Size - 1)

Keys == 1 .. NumKeys

\* what an m_Buffer slot can hold before it is first written: the constructor
\* does not initialise m_Buffer
Garbage == {0, 1}

\* a mutant of Prev: the index is decremented without the modulo
Prev_NoWrap(x) == x - 1

\* (x - 1) % Size on unsigned int: Size divides 2^32, so the wrap of x - 1 at 0
\* is the wrap modulo Size
Prev(x) == (x - 1) % Size

GetUnallocated == (m_Input - m_Output) % Size

GetAllocated == (m_Output - m_Input - 1) % Size

NonEmpty == GetAllocated > 0

NonFull_Always == TRUE

NonFull == GetUnallocated > 0

\* the members after SpikeInputBufferBase(): m_Buffer is left as it was
CtorQueue ==
  /\ m_Buffer \in [Slots -> Garbage]
  /\ m_Input = Size - 1
  /\ m_Output = 0
  /\ m_NumOverflows = 0
  /\ m_NumUnderflows = 0

InitCallers ==
  /\ e = 0
  /\ pushed = <<>>
  /\ popped = <<>>
  /\ addFalse = 0
  /\ getFalse = 0
  /\ nAdd = 0
  /\ nGet = 0

InitProcs ==
  /\ pcP = "idle"
  /\ keyP = 0
  /\ pcC = "idle"
  /\ pending = {}

\* a mutant of AddSpike: the failure branch forgets the counter
AddSpike_NoCount(key) ==
  /\ nAdd' = nAdd + 1
  /\ IF NonFull
       THEN /\ m_Buffer' = [m_Buffer EXCEPT ![m_Input] = key]
            /\ m_Input' = Prev(m_Input)
            /\ pushed' = Append(pushed, key)
            /\ pending' = pending \cup {m_Input}
            /\ UNCHANGED <<m_NumOverflows, addFalse>>
       ELSE /\ addFalse' = addFalse + 1
            /\ UNCHANGED <<m_Buffer, m_Input, m_NumOverflows, pushed, pending>>
  /\ UNCHANGED <<m_Output, m_NumUnderflows, e, popped, getFalse, nGet, pcP, keyP, pcC>>
  /\ UNCHANGED <<svars, gvars, tvars>>

\* a mutant of AddSpike: the slot is stored before the test
AddSpike_StoreFirst(key) ==
  /\ nAdd' = nAdd + 1
  /\ m_Buffer' = [m_Buffer EXCEPT ![m_Input] = key]
  /\ IF NonFull
       THEN /\ m_Input' = Prev(m_Input)
            /\ pushed' = Append(pushed, key)
            /\ pending' = pending \cup {m_Input}
            /\ UNCHANGED <<m_NumOverflows, addFalse>>
       ELSE /\ m_NumOverflows' = m_NumOverflows + 1
            /\ addFalse' = addFalse + 1
            /\ UNCHANGED <<m_Input, pushed, pending>>
  /\ UNCHANGED <<m_Output, m_NumUnderflows, e, popped, getFalse, nGet, pcP, keyP, pcC>>
  /\ UNCHANGED <<svars, gvars, tvars>>

\* bool AddSpike(uint32_t key), as one whole call
AddSpike(key) ==
  /\ nAdd' = nAdd + 1
  /\ IF NonFull
       THEN /\ m_Buffer' = [m_Buffer EXCEPT ![m_Input] = key]
            /\ m_Input' = Prev(m_Input)
            /\ pushed' = Append(pushed, key)
            /\ pending' = pending \cup {m_Input}
            /\ UNCHANGED <<m_NumOverflows, addFalse>>
       ELSE /\ m_NumOverflows' = m_NumOverflows + 1
            /\ addFalse' = addFalse + 1
            /\ UNCHANGED <<m_Buffer, m_Input, pushed, pending>>
  /\ UNCHANGED <<m_Output, m_NumUnderflows, e, popped, getFalse, nGet, pcP, keyP, pcC>>
  /\ UNCHANGED <<svars, gvars, tvars>>

\* bool GetNextSpike(uint32_t *e), as one whole call
GetNextSpike ==
  /\ nGet' = nGet + 1
  /\ IF NonEmpty
       THEN /\ e' = m_Buffer[m_Output]
            /\ m_Output' = Prev(m_Output)
            /\ popped' = Append(popped, m_Buffer[m_Output])
            /\ pending' = pending \ {m_Output}
            /\ UNCHANGED <<m_NumUnderflows, getFalse>>
       ELSE /\ m_NumUnderflows' = m_NumUnderflows + 1
            /\ getFalse' = getFalse + 1
            /\ UNCHANGED <<e, m_Output, popped, pending>>
  /\ UNCHANGED <<m_Buffer, m_Input, m_NumOverflows, pushed, addFalse, nAdd, pcP, keyP, pcC>>
  /\ UNCHANGED <<svars, gvars, tvars>>

\* the STDP object and its row while only the queue is exercised
IdleSTDP ==
  /\ tick = 0
  /\ dmaBuffer = [w \in 0 .. 5 |-> 0]
  /\ plasticWords = <<>>
  /\ controlWords = <<>>
  /\ m_PostEventHistory = <<>>
  /\ calls = <<>>
  /\ lastOp = "none"
  /\ lastFlush = FALSE
  /\ applied = {}
  /\ lastWindowEnd = <<>>

\* the matrix generator while it is not exercised
IdleGen ==
  /\ m_NumRows = 0
  /\ maxRowSynapses = 0
  /\ matrix = <<>>
  /\ matrixAddress = 0
  /\ genRow = 0
  /\ rowStarts = <<>>
  /\ rowInputs = <<>>

\* the Poisson source executable while it is not exercised
\* no timer callback is running
IdleEmit ==
  /\ emitPc = "idle"
  /\ requested = {}
  /\ toSend = <<>>
  /\ packets = <<>>
  /\ retried = FALSE

IdlePoisson ==
  /\ IdleEmit
  /\ g_SimulationTicks = 0
  /\ failAt = 0
  /\ bootCalls = <<>>
  /\ mainPc = "boot"
  /\ timerTick = 0
  /\ updates = <<>>
  /\ transfers = 0
  /\ exitCodes = <<>>

Init ==
  /\ CtorQueue
  /\ InitCallers
  /\ InitProcs
  /\ IdleSTDP
  /\ IdleGen
  /\ IdlePoisson

\* any sequence of AddSpike and GetNextSpike calls
Next ==
  \/ /\ nAdd + nGet < MaxCalls
     /\ \E key \in Keys : AddSpike(key)
  \/ /\ nAdd + nGet < MaxCalls
     /\ GetNextSpike

Spec == Init /\ [][Next]_vars


\* scenario S5: Size + 5 AddSpike calls on a new buffer, then Size GetNextSpike calls
NextS5 ==
  \/ /\ nAdd < Size + 5
     /\ nGet = 0
     /\ \E key \in Keys : AddSpike(key)
  \/ /\ nAdd = Size + 5
     /\ nGet < Size
     /\ GetNextSpike

SpecS5 == Init /\ [][NextS5]_vars

-----------------------------------------------------------------------------
(* The producer and the consumer, one statement at a time *)

\* line 41: bool success = NonFull();
P_41(key) ==
  /\ pcP = "idle"
  /\ keyP' = key
  /\ nAdd' = nAdd + 1
  /\ pcP' = IF NonFull THEN "44" ELSE "49"
  /\ UNCHANGED <<qvars, e, pushed, popped, addFalse, getFalse, nGet, pcC, pending>>
  /\ UNCHANGED <<svars, gvars, tvars>>

\* line 44: m_Buffer[m_Input] = key;
P_44 ==
  /\ pcP = "44"
  /\ m_Buffer' = [m_Buffer EXCEPT ![m_Input] = keyP]
  /\ pending' = pending \cup {m_Input}
  /\ pushed' = Append(pushed, keyP)
  /\ pcP' = "45"
  /\ UNCHANGED <<m_Input, m_Output, m_NumOverflows, m_NumUnderflows>>
  /\ UNCHANGED <<e, popped, addFalse, getFalse, nAdd, nGet, keyP, pcC>>
  /\ UNCHANGED <<svars, gvars, tvars>>

\* line 45: m_Input = (m_Input - 1) % Size; return success;
P_45 ==
  /\ pcP = "45"
  /\ m_Input' = Prev(m_Input)
  /\ pcP' = "idle"
  /\ UNCHANGED <<m_Buffer, m_Output, m_NumOverflows, m_NumUnderflows>>
  /\ UNCHANGED <<cvars, keyP, pcC, pending>>
  /\ UNCHANGED <<svars, gvars, tvars>>

\* line 49: m_NumOverflows++; return success;
P_49 ==
  /\ pcP = "49"
  /\ m_NumOverflows' = m_NumOverflows + 1
  /\ addFalse' = addFalse + 1
  /\ pcP' = "idle"
  /\ UNCHANGED <<m_Buffer, m_Input, m_Output, m_NumUnderflows>>
  /\ UNCHANGED <<e, pushed, popped, getFalse, nAdd, nGet, keyP, pcC, pending>>
  /\ UNCHANGED <<svars, gvars, tvars>>

\* line 57: bool success = NonEmpty();
C_57 ==
  /\ pcC = "idle"
  /\ nGet' = nGet + 1
  /\ pcC' = IF NonEmpty THEN "60" ELSE "65"
  /\ UNCHANGED <<qvars, e, pushed, popped, addFalse, getFalse, nAdd, pcP, keyP, pending>>
  /\ UNCHANGED <<svars, gvars, tvars>>

\* line 60: *e = m_Buffer[m_Output];
C_60 ==
  /\ pcC = "60"
  /\ e' = m_Buffer[m_Output]
  /\ pending' = pending \ {m_Output}
  /\ pcC' = "61"
  /\ UNCHANGED <<qvars, pushed, popped, addFalse, getFalse, nAdd, nGet, pcP, keyP>>
  /\ UNCHANGED <<svars, gvars, tvars>>

\* line 61: m_Output = (m_Output - 1) % Size; return success;
C_61 ==
  /\ pcC = "61"
  /\ m_Output' = Prev(m_Output)
  /\ popped' = Append(popped, e)
  /\ pcC' = "idle"
  /\ UNCHANGED <<m_Buffer, m_Input, m_NumOverflows, m_NumUnderflows>>
  /\ UNCHANGED <<e, pushed, addFalse, getFalse, nAdd, nGet, pcP, keyP, pending>>
  /\ UNCHANGED <<svars, gvars, tvars>>

\* line 65: m_NumUnderflows++; return success;
C_65 ==
  /\ pcC = "65"
  /\ m_NumUnderflows' = m_NumUnderflows + 1
  /\ getFalse' = getFalse + 1
  /\ pcC' = "idle"
  /\ UNCHANGED <<m_Buffer, m_Input, m_Output, m_NumOverflows>>
  /\ UNCHANGED <<e, pushed, popped, addFalse, nAdd, nGet, pcP, keyP, pending>>
  /\ UNCHANGED <<svars, gvars, tvars>>

NextSPSC ==
  \/ /\ nAdd + nGet < MaxCalls
     /\ \E key \in Keys : P_41(key)
  \/ P_44
  \/ P_45
  \/ P_49
  \/ /\ nAdd + nGet < MaxCalls
     /\ C_57
  \/ C_60
  \/ C_61
  \/ C_65

SpecSPSC == Init /\ [][NextSPSC]_vars

-----------------------------------------------------------------------------
(* Claims about the spike input queue *)

\* C1: the k-th successful GetNextSpike returns the key stored by the k-th
\* successful AddSpike: every value handed back is the key of the accepted
\* push of the same rank.
C1_FifoOrder ==
  \A k \in 1 .. Len(popped) : k <= Len(pushed) /\ popped[k] = pushed[k]

\* C2: on a new buffer, Size + 5 AddSpike calls with no GetNextSpike leave the
\* overflow counter at 5 with Size keys accepted, and the Size GetNextSpike
\* calls that follow all succeed and return those keys in push order.
C2_OverflowScenario ==
  /\ (nAdd = Size + 5) => (m_NumOverflows = 5 /\ Len(pushed) = Size)
  /\ (nAdd = Size + 5 /\ nGet = Size) => (getFalse = 0 /\ popped = pushed)

\* C3: m_NumOverflows is the number of AddSpike calls that returned false,
\* m_NumUnderflows the number of GetNextSpike calls that returned false, and
\* neither counter ever decreases.
C3_CountersExact ==
  /\ [](m_NumOverflows = addFalse /\ m_NumUnderflows = getFalse)
  /\ [][/\ m_NumOverflows' >= m_NumOverflows
        /\ m_NumUnderflows' >= m_NumUnderflows]_vars

C3_Witness ==
  /\ addFalse > 0
  /\ getFalse > 0
  /\ Len(popped) > 0

\* C4: AddSpike on a full buffer changes only m_NumOverflows (by one), and
\* GetNextSpike on an empty buffer changes only m_NumUnderflows (by one): the
\* slots, both indices and the caller's variable stay as they were.
C4_FailedCallFrame ==
  [][/\ (nAdd' = nAdd + 1 /\ ~NonFull) =>
          /\ m_Buffer' = m_Buffer
          /\ m_Input' = m_Input
          /\ m_Output' = m_Output
          /\ m_NumOverflows' = m_NumOverflows + 1
          /\ m_NumUnderflows' = m_NumUnderflows
     /\ (nGet' = nGet + 1 /\ ~NonEmpty) =>
          /\ m_Buffer' = m_Buffer
          /\ m_Input' = m_Input
          /\ m_Output' = m_Output
          /\ e' = e
          /\ m_NumUnderflows' = m_NumUnderflows + 1
          /\ m_NumOverflows' = m_NumOverflows]_vars

\* a full buffer that has refused a key, after an empty one refused a read
C4_Witness ==
  /\ ~NonFull
  /\ m_NumOverflows > 0
  /\ m_NumUnderflows > 0

\* C5: the producer writes only m_Input, m_NumOverflows and the slot
\* m_Buffer[m_Input]; the consumer writes only m_Output and m_NumUnderflows;
\* and the slot the producer stores to never holds an accepted key that has
\* not been read back.
C5_DisjointWrites ==
  [][/\ (pcP' # pcP) =>
          /\ m_Output' = m_Output
          /\ m_NumUnderflows' = m_NumUnderflows
          /\ \A s \in Slots \ {m_Input} : m_Buffer'[s] = m_Buffer[s]
     /\ (pcC' # pcC) =>
          /\ m_Input' = m_Input
          /\ m_NumOverflows' = m_NumOverflows
          /\ m_Buffer' = m_Buffer
     /\ (pcP = "44" /\ pcP' = "45") => m_Input \notin pending]_vars

\* the producer is about to store into a slot it has used before while the
\* consumer is in the middle of a read
C5_Witness ==
  /\ pcP = "44"
  /\ pcC = "60"
  /\ Len(pushed) >= Size
  /\ pending # {}

\* C25: in every state reachable from a newly constructed buffer by AddSpike
\* and GetNextSpike, m_Input < Size, m_Output < Size and GetAllocated() +
\* GetUnallocated() = Size - 1; a new buffer reports GetAllocated() = 0, and
\* the buffer is never both full and empty.
C25_IndexInvariants ==
  /\ m_Input \in 0 .. (Size - 1)
  /\ m_Output \in 0 .. (Size - 1)
  /\ GetAllocated + GetUnallocated = Size - 1
  /\ (nAdd = 0 /\ nGet = 0) => GetAllocated = 0
  /\ ~(~NonFull /\ ~NonEmpty)

\* both indices have gone round the buffer: it was filled until a key was
\* refused and emptied until a read was refused
C25_Witness ==
  /\ m_NumOverflows > 0
  /\ m_NumUnderflows > 0
  /\ Len(pushed) >= Size - 1
  /\ Len(popped) >= Size - 1

-----------------------------------------------------------------------------
(* SynapseTypes::STDP: bounds of the model *)

\* ticks run from 0 to MaxTick
MaxTick == 2

\* a row holds at most MaxSyn synapses
MaxSyn == 2

\* the weight dependence keeps weights in MinWeight .. MaxWeight
MaxWeight == 1

\* the template parameter T: entries a post-event history holds
HistDepth == 2

\* a trace value saturates at MaxTrace
MaxTrace == 1

-----------------------------------------------------------------------------
(* SynapseTypes::STDP: constants of the shipped configuration *)

\* template parameter D: delay bits of a control word
D == 3

\* template parameter I: index bits of a control word
I == 10

\* sizeof(C) * 8, C = uint16_t
ControlWordBits == 16

\* sizeof(PlasticSynapse), a 16-bit weight
PlasticSynapseBytes == 2

\* words the pre-trace takes in the row
PreTraceWords == 1

\* entries of m_PostEventHistory
NumPostHistories == 512

DelayMask == (2 ^ D) - 1

IndexMask == (2 ^ I) - 1

MinWeight == 0

\* post neurons the rows and the post-synaptic spikes of the model name
PostIDs == {0, 1}

\* (index, delay) pairs the connector and the delay generator hand to the
\* matrix generator
GenSynapses == {<<0, 2>>, <<1, 1>>, <<1, 2 ^ D>>}

-----------------------------------------------------------------------------
(* unsigned 32-bit order on the two's-complement representation *)

ULt(a, b) == IF (a >= 0) = (b >= 0) THEN a < b ELSE a >= 0

ULe(a, b) == a = b \/ ULt(a, b)

Min(a, b) == IF a < b THEN a ELSE b

Max(a, b) == IF a > b THEN a ELSE b

-----------------------------------------------------------------------------
(* the row codec *)

\* word & IndexMask
GetIndex(word) == word % (IndexMask + 1)

\* (word >> I) & DelayMask
GetDelay(word) == (word \div (2 ^ I)) % (DelayMask + 1)

\* the bits of a 32-bit synaptic word above the delay and index fields
WeightBits == 32 - (D + I)

\* the weight field of weights[j] << (DelayBits + IndexBits) in 32 bits, held so
\* that the shifted field is the two's-complement pattern of the word
WrapWeight(weight) ==
  LET field == weight % (2 ^ WeightBits)
  IN  IF field >= 2 ^ (WeightBits - 1) THEN field - (2 ^ WeightBits) ELSE field

\* a mutant of SynapticWord: the delay is shifted by the delay width, not by the
\* index width
SynapticWord_ShiftByDelayBits(index, delay, weight) ==
  (index % (IndexMask + 1)) + ((delay % (DelayMask + 1)) * (2 ^ D))
    + (WrapWeight(weight) * (2 ^ (D + I)))

\* a mutant of SynapticWord: the index is not masked to its field
SynapticWord_NoMask(index, delay, weight) ==
  index + ((delay % (DelayMask + 1)) * (2 ^ I))
    + (WrapWeight(weight) * (2 ^ (D + I)))

\* the synaptic word MatrixGenerator::Static::Generate writes
SynapticWord(index, delay, weight) ==
  (index % (IndexMask + 1)) + ((delay % (DelayMask + 1)) * (2 ^ I))
    + (WrapWeight(weight) * (2 ^ (D + I)))

\* word >> (D + I): the weight field of a 32-bit synaptic word
GetWeight(word) == (word \div (2 ^ (D + I))) % (2 ^ WeightBits)

\* the control words a generated row can hold: the index and delay fields of a
\* synaptic word, in a word of type C
GenControlWords ==
  {SynapticWord(g[1], g[2], 0) % (2 ^ ControlWordBits) : g \in GenSynapses}

GetNumPlasticWords(numSynapses) ==
  LET plasticBytes == numSynapses * PlasticSynapseBytes
  IN  (plasticBytes \div 4) + (IF plasticBytes % 4 = 0 THEN 0 ELSE 1)

GetNumControlWords(numSynapses) ==
  LET controlBytes == numSynapses * (ControlWordBits \div 8)
  IN  (controlBytes \div 4) + (IF controlBytes % 4 = 0 THEN 0 ELSE 1)

\* the words of a row of rowSynapses synapses
GetRowWords(rowSynapses) ==
  5 + PreTraceWords + GetNumPlasticWords(rowSynapses) + GetNumControlWords(rowSynapses)

\* the word of dmaBuffer the plastic region starts at
GetPlasticWords == 5 + PreTraceWords

\* the word of dmaBuffer the control region starts at
GetControlWords(numSynapses) == 5 + PreTraceWords + GetNumPlasticWords(numSynapses)

\* the word of dmaBuffer that holds the k-th plastic synapse (k from 1)
PlasticWordOf(k) == GetPlasticWords + (((k - 1) * PlasticSynapseBytes) \div 4)

-----------------------------------------------------------------------------
(* Plasticity::PostEventHistory, the timing dependence and the weight      *)
(* dependence: their code is not part of the sources at hand; they are      *)
(* modelled from the specification (sections 3, 4.F and 4.G).               *)

\* add(tick, trace): appends, evicting the oldest entry when full
HistAdd(h, t, trace) ==
  IF Len(h) < HistDepth THEN Append(h, <<t, trace>>)
  ELSE Append(Tail(h), <<t, trace>>)

\* get_last_time / get_last_trace: the most recent entry, or zero
GetLastTime(h) == IF h = <<>> THEN 0 ELSE h[Len(h)][1]

GetLastTrace(h) == IF h = <<>> THEN 0 ELSE h[Len(h)][2]

\* get_window(begin, end): the entries with begin <= t < end, and the entry
\* immediately older than the first of them (or zero)
GetWindow(h, beginTime, endTime) ==
  LET older == SelectSeq(h, LAMBDA ev : ULt(ev[1], beginTime))
  IN  [events |-> SelectSeq(h, LAMBDA ev : ULe(beginTime, ev[1]) /\ ULt(ev[1], endTime)),
       prevTime |-> GetLastTime(older),
       prevTrace |-> GetLastTrace(older)]

\* update_pre_trace / update_post_trace: the last trace decayed over the
\* elapsed ticks, plus this spike's contribution
UpdateTrace(t, lastTrace, lastTick) ==
  Min(Max(lastTrace - (t - lastTick), 0) + 1, MaxTrace)

UpdatePreTrace(t, lastTrace, lastTick) == UpdateTrace(t, lastTrace, lastTick)

UpdatePostTrace(t, lastTrace, lastTick) == UpdateTrace(t, lastTrace, lastTick)

\* WeightDependence: mutate the weight state inside its bounds
ApplyPotentiation(w, amount) == Min(w + amount, MaxWeight)

ApplyDepression(w, amount) == Max(w - amount, MinWeight)

\* SynapseStructure / WeightDependence: the final weight of an update state
CalculateFinalState(w) == Min(Max(w, MinWeight), MaxWeight)

\* nearest-pair apply_post_spike: potentiation against the last pre-synaptic spike
ApplyPostSpike(w, delayedPostTick, delayedLastPreTick) ==
  IF ULt(delayedLastPreTick, delayedPostTick) THEN ApplyPotentiation(w, 1) ELSE w

\* nearest-pair apply_pre_spike: depression against the previous post-synaptic spike
ApplyPreSpike(w, delayedPreTick, prevPostTime) ==
  IF ULt(prevPostTime, delayedPreTick) THEN ApplyDepression(w, 1) ELSE w

-----------------------------------------------------------------------------
(* STDP::ProcessRow *)

\* a mutant of RowCount: the loop misses the last synapse
RowCount_OffByOne(buf) == IF buf[0] > 0 THEN buf[0] - 1 ELSE 0

\* uint32_t count = dmaBuffer[0];
RowCount(buf) == buf[0]

\* a mutant of UpdateHeader: the pre-synaptic record is written on a flush too
UpdateHeader_AlwaysPre(buf, t, flush, newPreTrace) ==
  [buf EXCEPT ![3] = t, ![4] = t, ![5] = newPreTrace]

\* a mutant of UpdateHeader: the time of last update is not written back
UpdateHeader_NoUpdateTick(buf, t, flush, newPreTrace) ==
  IF flush THEN buf
  ELSE [buf EXCEPT ![4] = t, ![5] = newPreTrace]

\* lines 66-86: dmaBuffer[3] = tick; and, unless this is a flush,
\* dmaBuffer[4] = tick and SetPreTrace(dmaBuffer, newPreTrace)
UpdateHeader(buf, t, flush, newPreTrace) ==
  IF flush THEN [buf EXCEPT ![3] = t]
  ELSE [buf EXCEPT ![3] = t, ![4] = t, ![5] = newPreTrace]

\* windowBeginTick: the last update seen through the dendritic delay, or 0
WindowBeginTick(delayedLastUpdateTick, delayDendritic) ==
  IF delayedLastUpdateTick >= delayDendritic
    THEN delayedLastUpdateTick - delayDendritic
    ELSE 0

\* windowEndTick = tick + delayAxonal - delayDendritic, in uint32_t: below
\* zero it wraps, and the result is held as its two's-complement pattern
WindowEndTick(delayedTick, delayDendritic) == delayedTick - delayDendritic

\* the while loop over the window: ApplyPostSpike for each event in turn
RECURSIVE PostSpikeLoop(_, _, _, _, _)
PostSpikeLoop(events, w, delayDendritic, delayedLastPreTick, k) ==
  IF events = <<>> THEN [weight |-> w, calls |-> <<>>]
  ELSE LET delayedPostTick == Head(events)[1] + delayDendritic
           rest == PostSpikeLoop(Tail(events),
                     ApplyPostSpike(w, delayedPostTick, delayedLastPreTick),
                     delayDendritic, delayedLastPreTick, k)
       IN  [weight |-> rest.weight,
            calls |-> <<<<"ApplyPostSpike", k, Head(events)[1], delayedPostTick>>>>
                        \o rest.calls]

\* a mutant of Deposit: the weight is added to the ring buffer on a flush too
Deposit_Always(flush, deliveryTick, postIndex, weight) ==
  <<<<"applyInput", deliveryTick, postIndex, weight>>>>

\* lines 173-177: if(!flush) applyInputFunction(...)
Deposit(flush, deliveryTick, postIndex, weight) ==
  IF ~flush THEN <<<<"applyInput", deliveryTick, postIndex, weight>>>> ELSE <<>>

\* one pass of the for loop, for the k-th synapse of the row
\* m_PostEventHistory[postIndex]: the history of a neuron the model follows,
\* the empty history of any other neuron, and past the end of the array
\* whatever the memory there reads as
PostHistoryRead(postIndex, beyond) ==
  IF postIndex \in DOMAIN m_PostEventHistory THEN m_PostEventHistory[postIndex]
  ELSE IF postIndex < NumPostHistories THEN <<>>
  ELSE beyond

SynapseUpdate(k, flush, lastUpdateTick, lastPreTick, beyond) ==
  LET controlWord == controlWords[k]
      delayDendritic == GetDelay(controlWord)
      delayAxonal == 0
      postIndex == GetIndex(controlWord)
      delayedLastPreTick == lastPreTick + delayAxonal
      delayedLastUpdateTick == lastUpdateTick + delayAxonal
      windowBeginTick == WindowBeginTick(delayedLastUpdateTick, delayDendritic)
      windowEndTick == WindowEndTick(tick + delayAxonal, delayDendritic)
      postWindow == GetWindow(PostHistoryRead(postIndex, beyond), windowBeginTick,
                              windowEndTick)
      numEvents == Len(postWindow.events)
      afterPost == PostSpikeLoop(postWindow.events, plasticWords[k], delayDendritic,
                                 delayedLastPreTick, k)
      prevTime == IF numEvents = 0 THEN postWindow.prevTime
                  ELSE postWindow.events[numEvents][1] + delayDendritic
      afterPre == IF ~flush
                    THEN ApplyPreSpike(afterPost.weight, tick + delayAxonal, prevTime)
                    ELSE afterPost.weight
      finalState == CalculateFinalState(afterPre)
  IN  [plastic |-> finalState,
       calls |-> <<<<"GetWindow", k, postIndex, windowBeginTick, windowEndTick>>>>
                 \o afterPost.calls
                 \o Deposit(flush, delayDendritic + delayAxonal + tick, postIndex,
                            finalState)
                 \o <<<<"storePlastic", k>>>>]

RECURSIVE ConcatCalls(_, _)
ConcatCalls(results, k) ==
  IF k = 0 THEN <<>> ELSE ConcatCalls(results, k - 1) \o results[k].calls

\* a mutant of AddDelayRow: the extension is queued for the stored offset, not
\* for offset + tick
AddDelayRow_NoTick(buf, t, flush) ==
  IF buf[1] # 0 THEN <<<<"addDelayRow", buf[1], buf[2], flush>>>> ELSE <<>>

\* lines 60-63: if(dmaBuffer[1] != 0) addDelayRowFunction(dmaBuffer[1] + tick,
\* dmaBuffer[2], flush)
AddDelayRow(buf, t, flush) ==
  IF buf[1] # 0 THEN <<<<"addDelayRow", buf[1] + t, buf[2], flush>>>> ELSE <<>>

\* the stores to the header and pre-trace words, in program order (lines 67,
\* 84 and 85)
HeaderStores(flush) ==
  IF flush THEN <<<<"store", 3>>>>
  ELSE <<<<"store", 3>>, <<"store", 4>>>>
         \o [w \in 1 .. PreTraceWords |-> <<"store", 4 + w>>]

\* a mutant of WriteBackRow: the row is never written back
WriteBackRow_None(buf) == <<>>

\* a mutant of WriteBackRow: the whole of the row after the fixed header is
\* written back, control words included
WriteBackRow_WholeRow(buf) ==
  <<<<"writeBack", 3, 3, GetRowWords(buf[0]) - 3>>>>

\* lines 184-185: writeBackRowFunction(&sdramRowAddress[3], &dmaBuffer[3],
\* 2 + PreTraceWords + GetNumPlasticWords(dmaBuffer[0])), logged as destination
\* word, source word and length
WriteBackRow(buf) ==
  <<<<"writeBack", 3, 3, 2 + PreTraceWords + GetNumPlasticWords(buf[0])>>>>

\* bool ProcessRow(tick, dmaBuffer, sdramRowAddress, flush, applyInputFunction,
\*                 addDelayRowFunction, writeBackRowFunction)
\* the <<synapse, event time>> pairs of the ApplyPostSpike calls in a log
AppliedBy(log) ==
  {<<log[c][2], log[c][3]>> : c \in {x \in 1 .. Len(log) : log[x][1] = "ApplyPostSpike"}}

\* the windowEndTick of each synapse's GetWindow call in a log
WindowEndsOf(log) ==
  LET windows == SelectSeq(log, LAMBDA c : c[1] = "GetWindow")
  IN  [k \in 1 .. Len(windows) |-> windows[k][5]]

\* beyond is what a read past the end of m_PostEventHistory finds; with track
\* the ApplyPostSpike calls are added to applied
ProcessRowReading(flush, beyond, track) ==
  LET lastUpdateTick == dmaBuffer[3]
      lastPreTick == dmaBuffer[4]
      lastPreTrace == dmaBuffer[5]
      newPreTrace == UpdatePreTrace(tick, lastPreTrace, lastPreTick)
      count == RowCount(dmaBuffer)
      results == [k \in 1 .. count |->
                    SynapseUpdate(k, flush, lastUpdateTick, lastPreTick, beyond)]
      delayCalls == AddDelayRow(dmaBuffer, tick, flush)
      writeBack == WriteBackRow(dmaBuffer)
  IN  /\ dmaBuffer' = UpdateHeader(dmaBuffer, tick, flush, newPreTrace)
      /\ plasticWords' = [k \in 1 .. Len(plasticWords) |->
                            IF k <= count THEN results[k].plastic ELSE plasticWords[k]]
      /\ calls' = delayCalls \o HeaderStores(flush) \o ConcatCalls(results, count)
                     \o writeBack
      /\ lastOp' = "ProcessRow"
      /\ lastFlush' = flush
      /\ applied' = (IF track THEN applied \cup AppliedBy(calls') ELSE applied)
      /\ lastWindowEnd' = (IF track THEN WindowEndsOf(calls') ELSE lastWindowEnd)
      /\ UNCHANGED <<tick, controlWords, m_PostEventHistory>>
      /\ UNCHANGED <<qvars, cvars, pvars, gvars, tvars>>

\* what the memory after m_PostEventHistory can read as, as a history
BeyondHistories == {<<>>, <<<<0, 1>>>>}

\* the row has a control word whose index is past the end of the array
ReadsBeyond ==
  \E k \in 1 .. Len(controlWords) : GetIndex(controlWords[k]) >= NumPostHistories

ProcessRow(flush) ==
  \E beyond \in (IF ReadsBeyond THEN BeyondHistories ELSE {<<>>}) :
    ProcessRowReading(flush, beyond, FALSE)

\* ProcessRow, with its ApplyPostSpike calls added to applied
ProcessRowTracked(flush) ==
  \E beyond \in (IF ReadsBeyond THEN BeyondHistories ELSE {<<>>}) :
    ProcessRowReading(flush, beyond, TRUE)

\* a mutant of AddPostSynapticSpike: the neuron ID is reduced to the size of
\* the array instead of being tested against it
AddPostSynapticSpike_Wrap(neuronID) ==
  /\ LET id == neuronID % NumPostHistories
         postHistory == m_PostEventHistory[id]
         trace == UpdatePostTrace(tick, GetLastTrace(postHistory),
                                  GetLastTime(postHistory))
     IN  m_PostEventHistory' =
           [m_PostEventHistory EXCEPT ![id] = HistAdd(postHistory, tick, trace)]
  /\ calls' = <<<<"neuronID", neuronID>>>>
  /\ lastOp' = "AddPostSynapticSpike"
  /\ lastFlush' = FALSE
  /\ UNCHANGED <<tick, dmaBuffer, plasticWords, controlWords, applied, lastWindowEnd>>
  /\ UNCHANGED <<qvars, cvars, pvars, gvars, tvars>>

\* void AddPostSynapticSpike(uint tick, unsigned int neuronID); the argument
\* neuronID is kept in calls
AddPostSynapticSpike(neuronID) ==
  /\ IF neuronID < NumPostHistories
       THEN LET postHistory == m_PostEventHistory[neuronID]
                trace == UpdatePostTrace(tick, GetLastTrace(postHistory),
                                         GetLastTime(postHistory))
            IN  m_PostEventHistory' =
                  [m_PostEventHistory EXCEPT ![neuronID] = HistAdd(postHistory, tick, trace)]
       ELSE UNCHANGED m_PostEventHistory
  /\ calls' = <<<<"neuronID", neuronID>>>>
  /\ lastOp' = "AddPostSynapticSpike"
  /\ lastFlush' = FALSE
  /\ UNCHANGED <<tick, dmaBuffer, plasticWords, controlWords, applied, lastWindowEnd>>
  /\ UNCHANGED <<qvars, cvars, pvars, gvars, tvars>>

\* the timer moves on to the next tick
NextTick ==
  /\ tick < MaxTick
  /\ tick' = tick + 1
  /\ calls' = <<>>
  /\ lastOp' = "none"
  /\ lastFlush' = FALSE
  /\ UNCHANGED <<dmaBuffer, plasticWords, controlWords, m_PostEventHistory, applied,
                 lastWindowEnd>>
  /\ UNCHANGED <<qvars, cvars, pvars, gvars, tvars>>

\* the queue while only the STDP object is exercised
IdleQueue ==
  /\ m_Buffer = [s \in Slots |-> 0]
  /\ m_Input = Size - 1
  /\ m_Output = 0
  /\ m_NumOverflows = 0
  /\ m_NumUnderflows = 0

\* the weight the weight generator hands out for the k-th synapse of a row
GenWeight(k) == MinWeight + (k % (MaxWeight - MinWeight + 1))

\* a row as the matrix generator leaves it, before the first tick, its control
\* words among words
InitSTDPFor(words) ==
  /\ IdleQueue
  /\ InitCallers
  /\ InitProcs
  /\ tick = 0
  /\ \E n \in 0 .. MaxSyn :
       /\ controlWords \in [1 .. n -> words]
       /\ plasticWords = [k \in 1 .. n |-> GenWeight(k)]
       /\ \E ext \in {0, 3} :
            dmaBuffer = [w \in 0 .. (4 + PreTraceWords) |->
                           IF w = 0 THEN n ELSE IF w = 1 THEN ext
                           ELSE IF w = 2 /\ ext # 0 THEN 5 ELSE 0]
  /\ m_PostEventHistory = [n \in PostIDs |-> <<>>]
  /\ calls = <<>>
  /\ lastOp = "none"
  /\ lastFlush = FALSE
  /\ applied = {}
  /\ lastWindowEnd = <<>>
  /\ IdleGen
  /\ IdlePoisson

InitSTDP == InitSTDPFor(GenControlWords)

NextSTDP ==
  \/ \E flush \in BOOLEAN : ProcessRow(flush)
  \/ \E neuronID \in PostIDs \cup {NumPostHistories} :
       /\ neuronID \in PostIDs =>
            \/ m_PostEventHistory[neuronID] = <<>>
            \/ GetLastTime(m_PostEventHistory[neuronID]) < tick
       /\ AddPostSynapticSpike(neuronID)
  \/ NextTick

SpecSTDP == InitSTDP /\ [][NextSTDP]_vars

\* the same invocations, with the ApplyPostSpike calls of the row followed
\* over the whole sequence
NextTile ==
  \/ \E flush \in BOOLEAN : ProcessRowTracked(flush)
  \/ \E neuronID \in PostIDs :
       /\ \/ m_PostEventHistory[neuronID] = <<>>
          \/ GetLastTime(m_PostEventHistory[neuronID]) < tick
       /\ AddPostSynapticSpike(neuronID)
  \/ NextTick

SpecTile == InitSTDP /\ [][NextTile]_vars

\* (index, delay) pairs with indices up to the largest the index field holds
IndexSynapses == {<<1, 1>>, <<NumPostHistories, 1>>, <<IndexMask, 2>>}

IndexControlWords ==
  {SynapticWord(g[1], g[2], 0) % (2 ^ ControlWordBits) : g \in IndexSynapses}

\* rows whose control words use the whole of the index field
InitIndex == InitSTDPFor(IndexControlWords)

SpecIndex == InitIndex /\ [][NextSTDP]_vars

-----------------------------------------------------------------------------
(* Claims about STDP::ProcessRow *)

\* the applyInputFunction calls of the ProcessRow that has just returned
ApplyInputCalls == SelectSeq(calls, LAMBDA c : c[1] = "applyInput")

\* its ApplyPostSpike calls
PostSpikeCalls == SelectSeq(calls, LAMBDA c : c[1] = "ApplyPostSpike")

RECURSIVE SumWeights(_)
SumWeights(ws) == IF ws = <<>> THEN 0 ELSE Head(ws) + SumWeights(Tail(ws))

\* C6: a ProcessRow with flush = true never calls applyInputFunction, and
\* leaves dmaBuffer[3] equal to the current tick.
C6_FlushDepositsNothing ==
  (lastOp = "ProcessRow" /\ lastFlush) =>
    (ApplyInputCalls = <<>> /\ dmaBuffer[3] = tick)

\* a flush of a row with synapses, after the first tick, that applied a
\* post-synaptic event
C6_Witness ==
  /\ lastOp = "ProcessRow"
  /\ lastFlush
  /\ dmaBuffer[0] > 0
  /\ tick > 0
  /\ PostSpikeCalls # <<>>

\* C7: at every moment the row satisfies
\* dmaBuffer[4] (last pre tick) <= dmaBuffer[3] (last update tick) <= tick.
C7_TickOrder ==
  /\ dmaBuffer[4] <= dmaBuffer[3]
  /\ dmaBuffer[3] <= tick

\* a flush has moved the update tick past the tick of an earlier real spike
C7_Witness ==
  /\ lastOp = "ProcessRow"
  /\ lastFlush
  /\ dmaBuffer[4] > 0
  /\ dmaBuffer[4] < dmaBuffer[3]

\* C8: a second flush at the same tick, with no post-synaptic event added in
\* between, changes no plastic word and calls ApplyPostSpike for no event.
C8_FlushIdempotent ==
  [][(lastOp = "ProcessRow" /\ lastFlush /\ lastOp' = "ProcessRow" /\ lastFlush') =>
       (plasticWords' = plasticWords /\ PostSpikeCalls' = <<>>)]_vars

\* C9: a ProcessRow with flush = false calls applyInputFunction once per
\* synapse of the row, in storage order, the k-th call with the k-th synapse's
\* post index and its final weight (the weight written back to its plastic
\* word), so the deposited weights sum to the final weights of the row.
C9_DepositsFinalWeights ==
  (lastOp = "ProcessRow" /\ ~lastFlush) =>
    /\ Len(ApplyInputCalls) = dmaBuffer[0]
    /\ \A k \in 1 .. Len(ApplyInputCalls) :
         /\ ApplyInputCalls[k][3] = GetIndex(controlWords[k])
         /\ ApplyInputCalls[k][4] = plasticWords[k]
    /\ SumWeights([k \in 1 .. Len(ApplyInputCalls) |-> ApplyInputCalls[k][4]])
         = SumWeights(plasticWords)

\* a real spike on a row of two synapses with different targets, after which
\* the two synapses hold different weights, one of them changed by a
\* post-synaptic event
C9_Witness ==
  /\ lastOp = "ProcessRow"
  /\ ~lastFlush
  /\ dmaBuffer[0] >= 2
  /\ GetIndex(controlWords[1]) # GetIndex(controlWords[2])
  /\ plasticWords[1] # plasticWords[2]
  /\ PostSpikeCalls # <<>>

\* C10: every applyInputFunction call made at tick t is for tick t + d with
\* 1 <= d < 2^D.
C10_DepositInFuture ==
  lastOp = "ProcessRow" =>
    \A k \in 1 .. Len(ApplyInputCalls) :
      /\ ApplyInputCalls[k][2] - tick >= 1
      /\ ApplyInputCalls[k][2] - tick < 2 ^ D

\* the addDelayRowFunction calls of the ProcessRow that has just returned
DelayRowCalls == SelectSeq(calls, LAMBDA c : c[1] = "addDelayRow")

\* its stores to row words: header, pre-trace and plastic words
StoreCalls == SelectSeq(calls, LAMBDA c : c[1] \in {"store", "storePlastic"})

\* C11: when dmaBuffer[1] != 0, ProcessRow calls addDelayRowFunction exactly
\* once, for tick dmaBuffer[1] + tick and locator dmaBuffer[2], as the first
\* thing it does (before any applyInputFunction call and before any store to
\* the row), and then processes all N synapses; when dmaBuffer[1] = 0 it never
\* calls it.
C11_DelayExtensionFirst ==
  lastOp = "ProcessRow" =>
    IF dmaBuffer[1] # 0
      THEN /\ Len(DelayRowCalls) = 1
           /\ calls[1][1] = "addDelayRow"
           /\ calls[1][2] = dmaBuffer[1] + tick
           /\ calls[1][3] = dmaBuffer[2]
           /\ Len(SelectSeq(calls, LAMBDA c : c[1] = "storePlastic")) = dmaBuffer[0]
           /\ ~lastFlush => Len(ApplyInputCalls) = dmaBuffer[0]
      ELSE DelayRowCalls = <<>>

\* a real spike after the first tick on a row with a delay extension and two
\* synapses
C11_Witness ==
  /\ lastOp = "ProcessRow"
  /\ ~lastFlush
  /\ dmaBuffer[1] # 0
  /\ tick > 0
  /\ dmaBuffer[0] >= 2
  /\ Len(ApplyInputCalls) >= 2

\* the writeBackRowFunction calls of the ProcessRow that has just returned
WriteBackCalls == SelectSeq(calls, LAMBDA c : c[1] = "writeBack")

\* the word of dmaBuffer a logged store writes
StoreWord(c) == IF c[1] = "store" THEN c[2] ELSE PlasticWordOf(c[2])

\* C12: ProcessRow never modifies dmaBuffer[0..2] or a control word: every
\* store it makes is to a word from 3 up to (not including) the first control
\* word; and its writeBackRowFunction call has destination word 3, source word
\* 3 and length 2 + PreTraceWords + GetNumPlasticWords(N), which ends exactly
\* where the control region begins.
C12_MutableRegionOnly ==
  /\ [](lastOp = "ProcessRow" =>
         /\ \A k \in 1 .. Len(StoreCalls) :
              /\ StoreWord(StoreCalls[k]) >= 3
              /\ StoreWord(StoreCalls[k]) < GetControlWords(dmaBuffer[0])
         /\ \A k \in 1 .. Len(WriteBackCalls) :
              /\ WriteBackCalls[k][2] = 3
              /\ WriteBackCalls[k][3] = 3
              /\ WriteBackCalls[k][4] = 2 + PreTraceWords + GetNumPlasticWords(dmaBuffer[0])
              /\ WriteBackCalls[k][3] + WriteBackCalls[k][4] = GetControlWords(dmaBuffer[0])
              /\ \A j \in 1 .. Len(StoreCalls) :
                   StoreWord(StoreCalls[j]) < WriteBackCalls[k][3] + WriteBackCalls[k][4])
  /\ [][lastOp' = "ProcessRow" =>
          /\ \A w \in 0 .. 2 : dmaBuffer'[w] = dmaBuffer[w]
          /\ controlWords' = controlWords]_vars

\* a ProcessRow that changed a plastic word of a row of two synapses and
\* called writeBackRowFunction
C12_Witness ==
  /\ lastOp = "ProcessRow"
  /\ dmaBuffer[0] >= 2
  /\ WriteBackCalls # <<>>
  /\ \E k \in 1 .. dmaBuffer[0] : plasticWords[k] # GenWeight(k)

\* C13: a ProcessRow with flush = false calls writeBackRowFunction exactly
\* once, and a ProcessRow with flush = true does not call it.
C13_WriteBackIffNonFlush ==
  lastOp = "ProcessRow" =>
    Len(WriteBackCalls) = (IF lastFlush THEN 0 ELSE 1)

\* C13, amended: every ProcessRow, flush or not, calls writeBackRowFunction
\* exactly once, as the last thing it does.
C13_WriteBackAlways ==
  lastOp = "ProcessRow" =>
    /\ Len(WriteBackCalls) = 1
    /\ calls[Len(calls)][1] = "writeBack"

\* a flush that applied a post-synaptic event, changed a plastic word and
\* called writeBackRowFunction
C13_Witness ==
  /\ lastOp = "ProcessRow"
  /\ lastFlush
  /\ PostSpikeCalls # <<>>
  /\ \E k \in 1 .. dmaBuffer[0] : plasticWords[k] # GenWeight(k)
  /\ Len(WriteBackCalls) = 1

\* C18: a ProcessRow with flush = true leaves dmaBuffer[4] and the pre-trace
\* words unchanged; one with flush = false sets dmaBuffer[4] to the current
\* tick and the pre-trace to UpdatePreTrace(tick, lastPreTrace, lastPreTick).
C18_FlushKeepsPreRecord ==
  [][lastOp' = "ProcessRow" =>
       IF lastFlush'
         THEN /\ dmaBuffer'[4] = dmaBuffer[4]
              /\ \A w \in 1 .. PreTraceWords : dmaBuffer'[4 + w] = dmaBuffer[4 + w]
         ELSE /\ dmaBuffer'[4] = tick
              /\ dmaBuffer'[5] = UpdatePreTrace(tick, dmaBuffer[5], dmaBuffer[4])]_vars

\* a flush at a later tick than the last real spike, whose tick and trace the
\* row still holds
C18_Witness ==
  /\ lastOp = "ProcessRow"
  /\ lastFlush
  /\ dmaBuffer[3] = tick
  /\ dmaBuffer[4] > 0
  /\ dmaBuffer[4] < tick
  /\ dmaBuffer[5] > 0

\* C24: AddPostSynapticSpike(tick, neuronID) with neuronID >= 512 changes no
\* post-event history; with neuronID < 512 it appends exactly one entry
\* (tick, UpdatePostTrace(tick, last trace, last time)) to that neuron's
\* history (the oldest entry leaving a full history) and leaves every other
\* neuron's history unchanged.
C24_PostSpikeGuard ==
  [][lastOp' = "AddPostSynapticSpike" =>
       LET neuronID == calls'[1][2]
       IN  IF neuronID >= NumPostHistories
             THEN m_PostEventHistory' = m_PostEventHistory
             ELSE LET old == m_PostEventHistory[neuronID]
                      new == m_PostEventHistory'[neuronID]
                  IN  /\ new # <<>>
                      /\ new[Len(new)]
                           = <<tick, UpdatePostTrace(tick, GetLastTrace(old), GetLastTime(old))>>
                      /\ SubSeq(new, 1, Len(new) - 1)
                           = (IF Len(old) < HistDepth THEN old ELSE Tail(old))
                      /\ \A other \in DOMAIN m_PostEventHistory :
                           other # neuronID =>
                             m_PostEventHistory'[other] = m_PostEventHistory[other]]_vars

\* a spike of neuron 1 has been added after one of neuron 0, at a later tick,
\* and then a spike with a neuron ID past the array was offered
C24_Witness ==
  /\ lastOp = "AddPostSynapticSpike"
  /\ calls[1][2] >= NumPostHistories
  /\ tick > 0
  /\ Len(m_PostEventHistory[0]) >= 1
  /\ Len(m_PostEventHistory[1]) >= 1
  /\ GetLastTime(m_PostEventHistory[0]) < GetLastTime(m_PostEventHistory[1])

\* the GetWindow calls of the last ProcessRow, as <<"GetWindow", synapse,
\* postIndex, windowBeginTick, windowEndTick>>
WindowCalls == SelectSeq(calls, LAMBDA c : c[1] = "GetWindow")

\* C21: over a sequence of ProcessRow invocations on the row at non-decreasing
\* ticks, the post-event window of each synapse begins where its window of the
\* previous invocation ended, and no post-synaptic event is passed to
\* ApplyPostSpike for the same synapse twice.
C21_WindowsTile ==
  [][lastOp' = "ProcessRow" =>
       /\ lastWindowEnd # <<>> =>
            \A c \in 1 .. Len(WindowCalls') :
              WindowCalls'[c][4] = lastWindowEnd[WindowCalls'[c][2]]
       /\ AppliedBy(calls') \cap applied = {}]_vars

\* C22: for every synapse ProcessRow processes with lastUpdateTick <= tick, in
\* 32-bit unsigned arithmetic windowBeginTick <= windowEndTick <= tick, also
\* when tick is less than the dendritic delay.
C22_WindowBoundsOrdered ==
  [][(lastOp' = "ProcessRow" /\ ULe(dmaBuffer[3], tick)) =>
       \A c \in 1 .. Len(WindowCalls') :
         /\ ULe(WindowCalls'[c][4], WindowCalls'[c][5])
         /\ ULe(WindowCalls'[c][5], tick)]_vars

\* C23: every index ProcessRow uses for m_PostEventHistory is below 512, the
\* size of the array, for every control word GetIndex can decode.
C23_PostIndexInBounds ==
  lastOp = "ProcessRow" =>
    \A c \in 1 .. Len(WindowCalls) : WindowCalls[c][3] < NumPostHistories

-----------------------------------------------------------------------------
(* ConnectionBuilder::MatrixGenerator::Static::Generate: bounds *)

\* m_NumRows is at most MaxRows
MaxRows == 2

\* maxRowSynapses is at most MaxRowSyn
MaxRowSyn == 2

-----------------------------------------------------------------------------
(* ConnectionBuilder::MatrixGenerator::Static::Generate *)

\* what the memory under the matrix can hold before it is written
GenGarbage == {0, 9}

\* (index, delay, weight) triples the connector, the delay generator and the
\* weight generator return: small, the largest of each field, and each one
\* past its field
GenTriples ==
  {<<1, 1, 1>>,
   <<(2 ^ I) - 1, (2 ^ D) - 1, (2 ^ WeightBits) - 1>>,
   <<(2 ^ I) + 1, (2 ^ D) + 2, (2 ^ WeightBits) + 3>>}

\* the triples the codec is exercised on, one row of one synapse at a time
CodecTriples ==
  {0, 1, 5, (2 ^ I) - 1, 2 ^ I, (2 ^ I) + 5}
    \X {0, 1, (2 ^ D) - 1, 2 ^ D, (2 ^ D) + 3}
    \X {0, 1, 2 ^ (WeightBits - 1), (2 ^ WeightBits) - 1, 2 ^ WeightBits}

\* lines 67-71: the three header words
WriteHeader(mem, addr, numIndices) ==
  [mem EXCEPT ![addr] = numIndices, ![addr + 1] = 0, ![addr + 2] = 0]

\* lines 74-79: the synaptic words, from addr on
WriteSynapses(mem, addr, numIndices, syn) ==
  [a \in DOMAIN mem |->
     IF a >= addr /\ a < addr + numIndices
       THEN SynapticWord(syn[a - addr + 1][1], syn[a - addr + 1][2], syn[a - addr + 1][3])
       ELSE mem[a]]

\* a mutant of SkipPadding: the pointer moves past the padding
SkipPadding_Advance(mem, addr, padding) ==
  [mem |-> mem, addr |-> addr + padding]

\* line 82: *matrixAddress += (maxRowSynapses - numIndices); the word under
\* the pointer is incremented, the pointer stays
SkipPadding(mem, addr, padding) ==
  [mem |-> [mem EXCEPT ![addr] = mem[addr] + padding], addr |-> addr]

\* one pass of the loop over rows (lines 43-83): the connector returned
\* numIndices indices and the generators the delays and weights in syn
GenerateRow(numIndices, syn) ==
  /\ genRow < m_NumRows
  /\ LET written == WriteSynapses(WriteHeader(matrix, matrixAddress, numIndices),
                                  matrixAddress + 3, numIndices, syn)
         skipped == SkipPadding(written, matrixAddress + 3 + numIndices,
                                maxRowSynapses - numIndices)
     IN  /\ matrix' = skipped.mem
         /\ matrixAddress' = skipped.addr
  /\ genRow' = genRow + 1
  /\ rowStarts' = Append(rowStarts, matrixAddress)
  /\ rowInputs' = Append(rowInputs, syn)
  /\ UNCHANGED <<m_NumRows, maxRowSynapses>>
  /\ UNCHANGED <<qvars, cvars, pvars, svars, tvars>>

\* the generator about to run: the memory holds the words of the matrix, at
\* the fixed stride, and the word after it
InitGenFor(rows, rowSyn) ==
  /\ m_NumRows \in rows
  /\ maxRowSynapses \in rowSyn
  /\ \E g \in GenGarbage :
       matrix = [a \in 0 .. (m_NumRows * (3 + maxRowSynapses)) |-> g]
  /\ matrixAddress = 0
  /\ genRow = 0
  /\ rowStarts = <<>>
  /\ rowInputs = <<>>
  /\ IdleQueue
  /\ InitCallers
  /\ InitProcs
  /\ IdleSTDP
  /\ IdlePoisson

InitGen == InitGenFor(0 .. MaxRows, 0 .. MaxRowSyn)

NextGen ==
  \E numIndices \in 0 .. maxRowSynapses :
    \E syn \in [1 .. numIndices -> GenTriples] : GenerateRow(numIndices, syn)

SpecGen == InitGen /\ [][NextGen]_vars

\* the codec alone: matrices of one row of one synapse
InitCodec == InitGenFor({1}, {1})

NextCodec == \E t \in CodecTriples : GenerateRow(1, <<t>>)

SpecCodec == InitCodec /\ [][NextCodec]_vars

-----------------------------------------------------------------------------
(* Claims about the matrix generator *)

\* C14: after Generate has produced R rows with maxRowSynapses = M the output
\* pointer has advanced by exactly R * (3 + M) words, and row i's header word
\* 0 is at word offset i * (3 + M), whatever the per-row synapse counts.
C14_FixedRowStride ==
  /\ matrixAddress = genRow * (3 + maxRowSynapses)
  /\ \A r \in 1 .. Len(rowStarts) : rowStarts[r] = (r - 1) * (3 + maxRowSynapses)

\* the j-th synaptic word of the r-th generated row, as it is in memory now
RowWord(r, j) == matrix[rowStarts[r] + 2 + j]

\* C15: for every (i, d, w) with i < 2^I, d < 2^D and w < 2^W, the synaptic
\* word the generator writes for it decodes back to i with GetIndex, to d with
\* GetDelay and to w with word >> (D + I).
C15_PackingRoundTrip ==
  \A r \in 1 .. Len(rowInputs) :
    \A j \in 1 .. Len(rowInputs[r]) :
      LET t == rowInputs[r][j]
      IN  (t[1] < 2 ^ I /\ t[2] < 2 ^ D /\ t[3] < 2 ^ WeightBits) =>
            /\ GetIndex(RowWord(r, j)) = t[1]
            /\ GetDelay(RowWord(r, j)) = t[2]
            /\ GetWeight(RowWord(r, j)) = t[3]

\* a word was generated from the largest index, delay and weight
C15_Witness ==
  /\ genRow = 1
  /\ rowInputs[1] = <<<<(2 ^ I) - 1, (2 ^ D) - 1, (2 ^ WeightBits) - 1>>>>
  /\ GetWeight(RowWord(1, 1)) = (2 ^ WeightBits) - 1

\* where the row after the r-th generated row starts (the output pointer, for
\* the last row generated)
RowEnd(r) == IF r < Len(rowStarts) THEN rowStarts[r + 1] ELSE matrixAddress

\* C19: every generated row holds, contiguously from its start, the header
\* N, 0, 0 (N the number of indices the connector returned) followed by
\* exactly N synaptic words, the j-th holding indices[j] and delays[j] masked
\* to their fields and weights[j] above them, so that no out-of-range input
\* alters another field below the weight field.
C19_RowContents ==
  \A r \in 1 .. Len(rowStarts) :
    LET N == Len(rowInputs[r])
    IN  /\ matrix[rowStarts[r]] = N
        /\ matrix[rowStarts[r] + 1] = 0
        /\ matrix[rowStarts[r] + 2] = 0
        /\ RowEnd(r) = rowStarts[r] + 3 + N
        /\ \A j \in 1 .. N :
             /\ GetIndex(RowWord(r, j)) = rowInputs[r][j][1] % (2 ^ I)
             /\ GetDelay(RowWord(r, j)) = rowInputs[r][j][2] % (2 ^ D)
             /\ GetWeight(RowWord(r, j)) = rowInputs[r][j][3] % (2 ^ WeightBits)

\* two rows were generated, the first shorter than maxRowSynapses and with an
\* index, a delay and a weight past their fields
C19_Witness ==
  /\ genRow = 2
  /\ Len(rowInputs[1]) >= 1
  /\ Len(rowInputs[1]) < maxRowSynapses
  /\ rowInputs[1][1][1] >= 2 ^ I
  /\ rowInputs[1][1][2] >= 2 ^ D
  /\ rowInputs[1][1][3] >= 2 ^ WeightBits
  /\ Len(rowInputs[2]) >= 1

\* C20: the padding statement adds maxRowSynapses - numIndices to the last
\* synaptic word of the row just written, and does not advance the pointer.
C20_PaddingMutatesLastWord ==
  [][(genRow' = genRow + 1 /\ Len(rowInputs'[genRow']) >= 1) =>
       LET N == Len(rowInputs'[genRow'])
           last == rowInputs'[genRow'][N]
       IN  /\ matrixAddress' = matrixAddress + 3 + N
           /\ matrix'[matrixAddress + 2 + N]
                = SynapticWord(last[1], last[2], last[3]) + (maxRowSynapses - N)]_vars

\* C20, amended: the padding statement adds maxRowSynapses - numIndices to the
\* word under the output pointer, the word that follows the last word written
\* for the row, and does not advance the pointer; the words of the row are
\* left as they were written.
C20_PaddingMutatesNextWord ==
  [][genRow' = genRow + 1 =>
       LET N == Len(rowInputs'[genRow'])
       IN  /\ matrixAddress' = matrixAddress + 3 + N
           /\ matrix'[matrixAddress'] = matrix[matrixAddress'] + (maxRowSynapses - N)
           /\ matrix'[matrixAddress] = N
           /\ \A j \in 1 .. N :
                matrix'[matrixAddress + 2 + j]
                  = SynapticWord(rowInputs'[genRow'][j][1], rowInputs'[genRow'][j][2],
                                 rowInputs'[genRow'][j][3])]_vars

\* a row with a synapse and with padding has just been generated: the word
\* under the pointer no longer holds what the memory held
C20_Witness ==
  /\ genRow >= 1
  /\ Len(rowInputs[genRow]) >= 1
  /\ Len(rowInputs[genRow]) < maxRowSynapses
  /\ matrix[matrixAddress] \notin GenGarbage

-----------------------------------------------------------------------------
(* The Poisson spike source executable: bounds *)

\* the configured simulation_ticks is at most MaxSimTicks, or UINT32_MAX
MaxSimTicks == 3

\* g_AppWords[AppWordNumSpikeSources]
NumSources == 2

\* the timer delivers at most MaxTimerTicks ticks
MaxTimerTicks == MaxSimTicks + 2

-----------------------------------------------------------------------------
(* c_main, ReadSDRAMData and TimerTick *)

\* UINT32_MAX, as its two's-complement pattern
UINT32_MAX == -1

\* the reads of ReadSDRAMData, in program order
ReadSteps ==
  <<"VerifyHeader", "ReadSystemRegion", "PoissonSource.ReadSDRAMData",
    "SpikeRecording.ReadSDRAMData">>

\* a mutant of ReadSDRAMData: the result of the last read is ignored
ReadSDRAMData_IgnoreLast(fail) ==
  [ok |-> fail = 0 \/ fail = Len(ReadSteps),
   calls |-> IF fail = 0 THEN ReadSteps ELSE SubSeq(ReadSteps, 1, fail)]

\* lines 123-160: each read in turn, return false at the first that fails
ReadSDRAMData(fail) ==
  [ok |-> fail = 0,
   calls |-> IF fail = 0 THEN ReadSteps ELSE SubSeq(ReadSteps, 1, fail)]

\* lines 210-230
c_main ==
  /\ mainPc = "boot"
  /\ LET read == ReadSDRAMData(failAt)
     IN  IF ~read.ok
           THEN /\ bootCalls' = read.calls
                /\ mainPc' = "returned"
           ELSE /\ bootCalls' = read.calls
                      \o <<"spin1_set_timer_tick", "spin1_callback_on", "spin1_start">>
                /\ mainPc' = "running"
  /\ UNCHANGED <<g_SimulationTicks, failAt, timerTick, updates, transfers, exitCodes,
                 evars>>
  /\ UNCHANGED <<qvars, cvars, pvars, svars, gvars>>

\* a mutant of ZeroBased: the tick is used as the timer delivers it
ZeroBased_NoDecrement(t) == t

\* line 168: tick--
ZeroBased(t) == t - 1

\* lines 171-172: a number of ticks is configured and they have passed
SimulationComplete(t) ==
  g_SimulationTicks # UINT32_MAX /\ ~ULt(t, g_SimulationTicks)

\* lines 165-204: the timer callback, for the next tick of the timer; spiking
\* are the sources g_PoissonSource.Update emits a spike for
TimerTick(spiking) ==
  /\ mainPc = "running"
  /\ timerTick < MaxTimerTicks
  /\ timerTick' = timerTick + 1
  /\ LET t == ZeroBased(timerTick + 1)
     IN  IF SimulationComplete(t)
           THEN /\ exitCodes' = Append(exitCodes, 0)
                /\ mainPc' = "exited"
                /\ UNCHANGED <<updates, transfers>>
           ELSE /\ updates' = Append(updates, <<t, spiking>>)
                /\ transfers' = transfers + 1
                /\ UNCHANGED <<exitCodes, mainPc>>
  /\ UNCHANGED <<g_SimulationTicks, failAt, bootCalls, evars>>
  /\ UNCHANGED <<qvars, cvars, pvars, svars, gvars>>

\* the core before c_main: the configuration in SDRAM is readable or fails at
\* one of the reads
InitPoisson ==
  /\ g_SimulationTicks \in (0 .. MaxSimTicks) \cup {UINT32_MAX}
  /\ failAt \in 0 .. Len(ReadSteps)
  /\ bootCalls = <<>>
  /\ mainPc = "boot"
  /\ timerTick = 0
  /\ updates = <<>>
  /\ transfers = 0
  /\ exitCodes = <<>>
  /\ IdleEmit
  /\ IdleQueue
  /\ InitCallers
  /\ InitProcs
  /\ IdleSTDP
  /\ IdleGen

NextPoisson ==
  \/ c_main
  \/ \E spiking \in SUBSET (0 .. (NumSources - 1)) : TimerTick(spiking)

SpecPoisson == InitPoisson /\ [][NextPoisson]_vars

-----------------------------------------------------------------------------
(* TimerTick statement by statement: the emit loop and the recording transfer *)

\* number of timer ticks that call g_PoissonSource.Update in one behaviour
MaxEmitTicks == 2

\* line 191: g_AppWords[AppWordKey], the routing key of the population, with
\* the neuron bits clear
g_AppWordKey == 4

\* the operator | of uint32_t, bit by bit
RECURSIVE BitOr(_, _)
BitOr(a, b) ==
  IF a = 0 THEN b
  ELSE IF b = 0 THEN a
  ELSE (IF a % 2 = 1 \/ b % 2 = 1 THEN 1 ELSE 0) + 2 * BitOr(a \div 2, b \div 2)

\* line 191: uint32_t key = g_AppWords[AppWordKey] | n
SpikeKey(n) == BitOr(g_AppWordKey, n)

\* g_PoissonSource.Update: emitSpikeLambda(n) is called once for each source
\* that spikes this tick, in ascending order of n
RECURSIVE EmitOrder(_)
EmitOrder(spiking) ==
  IF spiking = {} THEN <<>>
  ELSE LET n == CHOOSE x \in spiking : \A y \in spiking : x <= y
       IN  <<n>> \o EmitOrder(spiking \ {n})

\* a mutant of AfterFailedSend: a packet whose send fails is given up
AfterFailedSend_GiveUp(q) == Tail(q)

\* lines 192-195: while(!spin1_send_mc_packet(key, 0, NO_PAYLOAD)) leaves the
\* same key to be sent again
AfterFailedSend(q) == q

\* where the callback continues when the sends left are q: the next
\* emitSpikeLambda call of Update, or line 202 after Update returns
AfterSends(q) == IF q = <<>> THEN "transfer" ELSE "send"

\* lines 165-199: the timer callback up to the first send, for the next tick of
\* the timer; spiking are the sources g_PoissonSource.Update emits a spike for
TimerTickEntry(spiking) ==
  /\ mainPc = "running"
  /\ emitPc = "idle"
  /\ timerTick < MaxEmitTicks + 1
  /\ timerTick' = timerTick + 1
  /\ packets' = <<>>
  /\ retried' = FALSE
  /\ LET t == ZeroBased(timerTick + 1)
     IN  IF SimulationComplete(t)
           THEN /\ exitCodes' = Append(exitCodes, 0)
                /\ mainPc' = "exited"
                /\ requested' = {}
                /\ toSend' = <<>>
                /\ UNCHANGED emitPc
           ELSE /\ requested' = spiking
                /\ toSend' = EmitOrder(spiking)
                /\ emitPc' = AfterSends(EmitOrder(spiking))
                /\ UNCHANGED <<exitCodes, mainPc>>
  /\ UNCHANGED <<g_SimulationTicks, failAt, bootCalls, updates, transfers>>
  /\ UNCHANGED <<qvars, cvars, pvars, svars, gvars>>

\* line 192: spin1_send_mc_packet returns 0, the loop body is entered
SendPacketFails ==
  /\ emitPc = "send"
  /\ toSend # <<>>
  /\ toSend' = AfterFailedSend(toSend)
  /\ retried' = TRUE
  /\ emitPc' = "delay"
  /\ UNCHANGED <<requested, packets>>
  /\ UNCHANGED <<g_SimulationTicks, failAt, bootCalls, mainPc, timerTick, updates,
                 transfers, exitCodes>>
  /\ UNCHANGED <<qvars, cvars, pvars, svars, gvars>>

\* line 194: spin1_delay_us(1) returns, the loop condition is evaluated again
DelayUs ==
  /\ emitPc = "delay"
  /\ emitPc' = AfterSends(toSend)
  /\ UNCHANGED <<requested, toSend, packets, retried>>
  /\ UNCHANGED <<g_SimulationTicks, failAt, bootCalls, mainPc, timerTick, updates,
                 transfers, exitCodes>>
  /\ UNCHANGED <<qvars, cvars, pvars, svars, gvars>>

\* line 192: spin1_send_mc_packet returns non-zero, emitSpikeLambda returns
SendPacketSucceeds ==
  /\ emitPc = "send"
  /\ toSend # <<>>
  /\ packets' = Append(packets, SpikeKey(Head(toSend)))
  /\ toSend' = Tail(toSend)
  /\ emitPc' = AfterSends(Tail(toSend))
  /\ UNCHANGED <<requested, retried>>
  /\ UNCHANGED <<g_SimulationTicks, failAt, bootCalls, mainPc, timerTick, updates,
                 transfers, exitCodes>>
  /\ UNCHANGED <<qvars, cvars, pvars, svars, gvars>>

\* line 202: g_SpikeRecording.TransferBuffer(), the callback returns
TransferBuffer ==
  /\ emitPc = "transfer"
  /\ transfers' = transfers + 1
  /\ emitPc' = "idle"
  /\ UNCHANGED <<requested, toSend, packets, retried>>
  /\ UNCHANGED <<g_SimulationTicks, failAt, bootCalls, mainPc, timerTick, updates,
                 exitCodes>>
  /\ UNCHANGED <<qvars, cvars, pvars, svars, gvars>>

\* the core before c_main, its configuration readable
InitEmit ==
  /\ g_SimulationTicks \in (0 .. MaxEmitTicks) \cup {UINT32_MAX}
  /\ failAt = 0
  /\ bootCalls = <<>>
  /\ mainPc = "boot"
  /\ timerTick = 0
  /\ updates = <<>>
  /\ transfers = 0
  /\ exitCodes = <<>>
  /\ IdleEmit
  /\ IdleQueue
  /\ InitCallers
  /\ InitProcs
  /\ IdleSTDP
  /\ IdleGen

NextEmit ==
  \/ c_main
  \/ \E spiking \in SUBSET (0 .. (NumSources - 1)) : TimerTickEntry(spiking)
  \/ SendPacketFails
  \/ DelayUs
  \/ SendPacketSucceeds
  \/ TransferBuffer

\* a send that is tried again and again eventually succeeds, and a delay ends
SpecEmit ==
  /\ InitEmit
  /\ [][NextEmit]_vars
  /\ SF_vars(SendPacketSucceeds)
  /\ WF_vars(DelayUs)

-----------------------------------------------------------------------------
(* Claims about the Poisson spike source executable *)

\* C16: with simulation_ticks = S (S # UINT32_MAX) and timer ticks delivered
\* as 1, 2, 3, ..., TimerTick updates the source for the zero-based ticks
\* 0 .. S - 1 exactly once each, in order, and on the first tick whose
\* zero-based value is >= S it calls exit with code 0 and makes no source
\* update and no recording transfer.
C16_TerminatesAtTickCount ==
  g_SimulationTicks # UINT32_MAX =>
    /\ \A k \in 1 .. Len(updates) : updates[k][1] = k - 1
    /\ Len(updates) <= g_SimulationTicks
    /\ mainPc = "running" =>
         /\ exitCodes = <<>>
         /\ timerTick = Len(updates)
         /\ transfers = Len(updates)
    /\ mainPc = "exited" =>
         /\ exitCodes = <<0>>
         /\ timerTick = g_SimulationTicks + 1
         /\ Len(updates) = g_SimulationTicks
         /\ transfers = g_SimulationTicks

\* a simulation of at least two ticks has run to its end
C16_Witness ==
  /\ mainPc = "exited"
  /\ g_SimulationTicks >= 2
  /\ Len(updates) = g_SimulationTicks
  /\ exitCodes = <<0>>

\* C17: if header verification or the reading of a region fails,
\* ReadSDRAMData returns without reading any later region and c_main returns
\* without setting the timer period, registering the timer callback or
\* starting the simulation, so TimerTick never runs.
C17_FailedInitNeverStarts ==
  failAt # 0 =>
    /\ mainPc \in {"boot", "returned"}
    /\ timerTick = 0
    /\ updates = <<>>
    /\ exitCodes = <<>>
    /\ mainPc = "returned" =>
         /\ bootCalls = SubSeq(ReadSteps, 1, failAt)
         /\ \A k \in 1 .. Len(bootCalls) :
              bootCalls[k] \notin {"spin1_set_timer_tick", "spin1_callback_on", "spin1_start"}

\* c_main has returned after the last read, of the spike recording region,
\* failed
C17_Witness ==
  /\ mainPc = "returned"
  /\ failAt = Len(ReadSteps)
  /\ Len(bootCalls) = Len(ReadSteps)


\* the keys Update asked for this tick, in the order it asked
RequestedKeys == [k \in 1 .. Len(EmitOrder(requested)) |-> SpikeKey(EmitOrder(requested)[k])]

\* C26: every spike the Poisson source asks TimerTick to emit is retried until
\* its send succeeds: if a send that is retried eventually succeeds, every
\* requested spike is eventually sent, the packets sent in a tick are the
\* requested keys once each, and TransferBuffer is called for the tick only
\* after all of them were sent.
C26_NoSpikeDropped ==
  /\ [][transfers' # transfers => (toSend = <<>> /\ packets = RequestedKeys)]_vars
  /\ [](\A k \in 1 .. Len(packets) : \A j \in 1 .. Len(packets) :
          packets[k] = packets[j] => k = j)
  /\ \A t \in 1 .. (MaxEmitTicks + 1) : \A n \in 0 .. (NumSources - 1) :
       (timerTick = t /\ n \in requested)
         ~> (timerTick = t /\ \E k \in 1 .. Len(packets) : packets[k] = SpikeKey(n))

\* in the second tick two sources spiked, a send failed and was tried again,
\* both packets were sent and the recording was transferred
C26_Witness ==
  /\ timerTick = 2
  /\ emitPc = "idle"
  /\ transfers = 2
  /\ retried
  /\ Len(packets) = 2
  /\ packets = RequestedKeys

=========================================================================
